---- MODULE Spec2Model ----
(***************************************************************************)
(* Guardian AI server: the in-memory store (server/storage.ts), the        *)
(* blockchain service (server/services/blockchain.ts), the Groq AI service *)
(* (server/services/groq.ts), the monitor service                          *)
(* (server/services/monitor.ts) and the REST routes (server/routes.ts).    *)
(*                                                                         *)
(* Node runs one macrotask at a time and drains the microtask queue after  *)
(* it.  An `await` of a promise that is already settled (every storage     *)
(* call, every blockchain call in demo mode, every Groq call without an    *)
(* API key) resumes in a microtask: nothing else runs in between.  An      *)
(* `await` of real I/O (the Groq fetch, a call of the JSON-RPC provider)   *)
(* resumes in a later macrotask:                                           *)
(* timers and HTTP requests run in between.  `running` is the async call   *)
(* whose microtask chain is executing (0: the event loop is idle).         *)
(***************************************************************************)
EXTENDS Integers, Sequences, FiniteSets, TLC

VARIABLES
  storage,          \* MemStorage: the five maps and the five id counters
  isRunning,        \* MonitorService.isRunning
  checkInterval,    \* MonitorService.checkInterval (0: null, else a timer handle)
  analysisInterval, \* MonitorService.analysisInterval (0: null, else a timer handle)
  timers,           \* the interval timers scheduled in the event loop
  demoMode,         \* BlockchainService.demoMode
  listeners,        \* BlockchainService.listeners: the addresses listened to
  hasApiKey,        \* GROQ_API_KEY is a non-empty string
  booted,           \* registerRoutes has been called
  tasks,            \* the async calls in progress, one per slot
  running,          \* the slot whose microtask chain is executing, or 0
  response,         \* the last HTTP response sent: <<status, message>>
  lastStart,        \* what the last monitorService.start() call that returned did
  lastCheck,        \* the last checkContractHealth: the contract, what getContractCode did
  stopReturned,     \* stop() has returned and start() was not called since
  now               \* the clock read by `new Date()`

vars == <<storage, isRunning, checkInterval, analysisInterval, timers, demoMode,
          listeners, hasApiKey, booted, tasks, running, response, lastStart,
          lastCheck, stopReturned, now>>

(***************************************************************************)
(* Bounds of the model.                                                    *)
(***************************************************************************)
MaxTasks == 2
MaxTimers == 4
MaxEvents == 9
MaxMonitorAlerts == 2
MaxQueries == 1
MaxStoreRecords == 2
MaxDetected == 3
MaxSeededEvents == 6
MaxDays == 1
MaxHistory == 11
MaxSuspicious == 3

Slots == 1..MaxTasks

(***************************************************************************)
(* A JavaScript Map: the entries in insertion order.  `set` of a key that  *)
(* is present replaces the value in place, `set` of a new key appends.     *)
(***************************************************************************)
MapHas(m, k) == \E i \in DOMAIN m : m[i].key = k

MapGet(m, k) == m[CHOOSE i \in DOMAIN m : m[i].key = k].val

\* a `set` that moves the entry of a key that is present to the end
MapSetReinsert(m, k, v) ==
  Append(SelectSeq(m, LAMBDA entry : entry.key # k), [key |-> k, val |-> v])

MapSet(m, k, v) ==
  IF MapHas(m, k)
  THEN [i \in DOMAIN m |-> IF m[i].key = k THEN [key |-> k, val |-> v] ELSE m[i]]
  ELSE Append(m, [key |-> k, val |-> v])

MapValues(m) == [i \in DOMAIN m |-> m[i].val]

Slice(seq, limit) == IF Len(seq) <= limit THEN seq ELSE SubSeq(seq, 1, limit)

(***************************************************************************)
(* MemStorage (server/storage.ts).  Every operator takes the store and     *)
(* returns the store after the call.  The fields no code reads (addedAt,   *)
(* createdAt, abi, description, aiAnalysis, blockNumber, transactionHash,  *)
(* eventData, query, response, password) are left out of the records.      *)
(***************************************************************************)
EmptyStorage ==
  [users |-> <<>>, contracts |-> <<>>, alerts |-> <<>>, events |-> <<>>,
   aiQueries |-> <<>>,
   userCurrentId |-> 1, contractCurrentId |-> 1, alertCurrentId |-> 1,
   eventCurrentId |-> 1, aiQueryCurrentId |-> 1]

createUser(s, insertUser) ==
  LET id == s.userCurrentId
      user == [id |-> id, username |-> insertUser.username]
  IN [s EXCEPT !.userCurrentId = id + 1, !.users = MapSet(@, id, user)]

getContracts(s) == MapValues(s.contracts)

createContract(s, insertContract) ==
  LET id == s.contractCurrentId
      contract == [id |-> id,
                   name |-> insertContract.name,
                   address |-> insertContract.address,
                   type |-> insertContract.type,
                   status |-> IF "status" \in DOMAIN insertContract
                                 /\ insertContract.status # ""
                              THEN insertContract.status ELSE "HEALTHY"]
  IN [s EXCEPT !.contractCurrentId = id + 1, !.contracts = MapSet(@, id, contract)]

updateContractStatus(s, id, status) ==
  IF ~MapHas(s.contracts, id) THEN s
  ELSE [s EXCEPT !.contracts =
          MapSet(@, id, [MapGet(s.contracts, id) EXCEPT !.status = status])]

getAlerts(s) == MapValues(s.alerts)

getActiveAlerts(s) == SelectSeq(MapValues(s.alerts), LAMBDA alert : ~alert.resolved)

\* a createAlert that reads alertCurrentId without incrementing it
createAlertNoIncrement(s, insertAlert) ==
  LET id == s.alertCurrentId
      alert == [id |-> id,
                contractId |-> insertAlert.contractId,
                severity |-> insertAlert.severity,
                title |-> insertAlert.title,
                resolved |-> IF "resolved" \in DOMAIN insertAlert
                             THEN insertAlert.resolved ELSE FALSE]
  IN [s EXCEPT !.alerts = MapSet(@, id, alert)]

createAlert(s, insertAlert) ==
  LET id == s.alertCurrentId
      alert == [id |-> id,
                contractId |-> insertAlert.contractId,
                severity |-> insertAlert.severity,
                title |-> insertAlert.title,
                resolved |-> IF "resolved" \in DOMAIN insertAlert
                             THEN insertAlert.resolved ELSE FALSE]
  IN [s EXCEPT !.alertCurrentId = id + 1, !.alerts = MapSet(@, id, alert)]

\* a resolveAlert that flips the flag
resolveAlertToggle(s, id) ==
  IF ~MapHas(s.alerts, id) THEN s
  ELSE [s EXCEPT !.alerts =
          MapSet(@, id, [MapGet(s.alerts, id) EXCEPT !.resolved = ~@])]

resolveAlert(s, id) ==
  IF ~MapHas(s.alerts, id) THEN s
  ELSE [s EXCEPT !.alerts =
          MapSet(@, id, [MapGet(s.alerts, id) EXCEPT !.resolved = TRUE])]

\* Array.prototype.sort is stable: b.timestamp - a.timestamp puts the later
\* timestamp first and keeps the map order of events with equal timestamps.
RECURSIVE InsertByTimestamp(_, _)
InsertByTimestamp(sorted, e) ==
  IF sorted = <<>> THEN <<e>>
  ELSE IF Head(sorted).timestamp >= e.timestamp
       THEN <<Head(sorted)>> \o InsertByTimestamp(Tail(sorted), e)
       ELSE <<e>> \o sorted

RECURSIVE SortByTimestampDesc(_)
SortByTimestampDesc(seq) ==
  IF seq = <<>> THEN <<>>
  ELSE InsertByTimestamp(SortByTimestampDesc(SubSeq(seq, 1, Len(seq) - 1)),
                         seq[Len(seq)])

\* a getEventsByContract that ignores its limit
getEventsByContractUnlimited(s, contractId, limit) ==
  SortByTimestampDesc(SelectSeq(MapValues(s.events),
                                LAMBDA event : event.contractId = contractId))

\* limit = 0 stands for `undefined`: `limit ? events.slice(0, limit) : events`
getEventsByContract(s, contractId, limit) ==
  LET events == SortByTimestampDesc(
                  SelectSeq(MapValues(s.events),
                         LAMBDA event : event.contractId = contractId))
  IN IF limit # 0 THEN Slice(events, limit) ELSE events

createEvent(s, insertEvent, date) ==
  LET id == s.eventCurrentId
      event == [id |-> id,
                contractId |-> insertEvent.contractId,
                eventName |-> insertEvent.eventName,
                timestamp |-> date]
  IN [s EXCEPT !.eventCurrentId = id + 1, !.events = MapSet(@, id, event)]

createAiQuery(s, insertQuery, date) ==
  LET id == s.aiQueryCurrentId
      query == [id |-> id,
                contractId |-> insertQuery.contractId,
                tokenCount |-> insertQuery.tokenCount,
                createdAt |-> date]
  IN [s EXCEPT !.aiQueryCurrentId = id + 1, !.aiQueries = MapSet(@, id, query)]

RECURSIVE SumTokens(_)
SumTokens(queries) ==
  IF queries = <<>> THEN 0 ELSE Head(queries).tokenCount + SumTokens(Tail(queries))

getTotalQueryTokenCount(s) == SumTokens(MapValues(s.aiQueries))

initGuardianContracts(s) ==
  LET guardianFeed == [name |-> "Guardian Feed",
                       address |-> "0xea1Ad2Ebf76b490a327eF1885863c9209994F015",
                       type |-> "FEED", status |-> "HEALTHY"]
      guardianDAO == [name |-> "Guardian DAO",
                      address |-> "0xd4DcBae99C65079ba6CA2e99c8D5Dcc37d60456b",
                      type |-> "DAO", status |-> "WARNING"]
      guardianBadge == [name |-> "Guardian Badge",
                        address |-> "0x525975C25823ecb3a3875F577a5B9574aB758197",
                        type |-> "BADGE", status |-> "ALERT"]
  IN createContract(createContract(createContract(s, guardianFeed), guardianDAO),
                    guardianBadge)

MemStorage == initGuardianContracts(EmptyStorage)

(***************************************************************************)
(* String.prototype.toLowerCase on the addresses the store holds, and      *)
(* toUpperCase on the contract types.                                      *)
(***************************************************************************)
toLowerCase(str) ==
  CASE str = "0xea1Ad2Ebf76b490a327eF1885863c9209994F015"
         -> "0xea1ad2ebf76b490a327ef1885863c9209994f015"
    [] str = "0xd4DcBae99C65079ba6CA2e99c8D5Dcc37d60456b"
         -> "0xd4dcbae99c65079ba6ca2e99c8d5dcc37d60456b"
    [] str = "0x525975C25823ecb3a3875F577a5B9574aB758197"
         -> "0x525975c25823ecb3a3875f577a5b9574ab758197"
    [] OTHER -> str

toUpperCase(str) ==
  CASE str \in {"feed", "Feed"} -> "FEED"
    [] str \in {"dao", "Dao"} -> "DAO"
    [] str \in {"badge", "Badge"} -> "BADGE"
    [] OTHER -> str

\* Array.prototype.find: the first match; <<>> stands for `undefined`
getContractByAddress(s, address) ==
  SelectSeq(MapValues(s.contracts),
         LAMBDA contract : toLowerCase(contract.address) = toLowerCase(address))

(***************************************************************************)
(* BlockchainService (server/services/blockchain.ts).                      *)
(***************************************************************************)
DEMO_MODE == TRUE   \* process.env.DEMO_MODE === 'true' || true

eventTypes ==
  [FEED |-> "AlertSubmitted", DAO |-> "ProposalCreated", BADGE |-> "BadgeClaim"]

RECURSIVE createDemoEvents(_, _, _)
createDemoEvents(s, contracts, date) ==
  IF contracts = <<>> THEN s
  ELSE LET contract == Head(contracts)
           eventType == toUpperCase(contract.type)
           next == IF eventType \in DOMAIN eventTypes
                   THEN createEvent(s, [contractId |-> contract.id,
                                        eventName |-> eventTypes[eventType]], date)
                   ELSE s
       IN createDemoEvents(next, Tail(contracts), date)

createDemoAlerts(s) ==
  LET contracts == getContracts(s)
      alertTypes ==
        << [contractId |-> contracts[1].id,
            title |-> "Suspicious Transfer Pattern Detected", severity |-> "HIGH"],
           [contractId |-> contracts[2].id,
            title |-> "Governance Parameter Change", severity |-> "MEDIUM"],
           [contractId |-> contracts[3].id,
            title |-> "Unusual Minting Activity", severity |-> "LOW"] >>
  IN createAlert(createAlert(createAlert(s, alertTypes[1]), alertTypes[2]),
                 alertTypes[3])

DemoTitles ==
  {"Suspicious Transfer Pattern Detected", "Governance Parameter Change",
   "Unusual Minting Activity"}

\* the alerts that are not demo alerts: those the monitor created
monitorAlerts(s) ==
  SelectSeq(MapValues(s.alerts), LAMBDA alert : alert.title \notin DemoTitles)

\* blockchainService.initialize() in demo mode, or after the connection failed:
\* the store after it returned true
initialize(s, date) == createDemoAlerts(createDemoEvents(s, getContracts(s), date))

\* the names of the events of the ABI of a contract type
getContractAbi(type) ==
  CASE toUpperCase(type) = "FEED" -> {"AlertSubmitted", "AlertResolved"}
    [] toUpperCase(type) = "DAO" -> {"ProposalCreated", "Vote", "ProposalExecuted"}
    [] toUpperCase(type) = "BADGE" -> {"BadgeClaim", "BadgeRevoked"}
    [] OTHER -> {}

\* initializeContract on every stored contract: setupEventListeners registers
\* the address of each contract that has an ABI
initializeContract(ls, contracts) ==
  ls \cup {contracts[i].address : i \in {j \in DOMAIN contracts :
                                           getContractAbi(contracts[j].type) # {}}}

\* blockchainService.getContractCode(): the outcomes of one call.  In demo mode
\* it returns the dummy bytecode; otherwise it asks the provider, which answers
\* with the code, with "0x" (no code at the address), or fails ("throw").
getContractCode(demo) ==
  IF demo THEN {"0x6080"} ELSE {"0x6080", "0x", "throw"}

(***************************************************************************)
(* GroqService (server/services/groq.ts).                                  *)
(***************************************************************************)
DAILY_TOKEN_LIMIT == 100000

isWithinUsageLimit(s) == getTotalQueryTokenCount(s) < DAILY_TOKEN_LIMIT

\* The text of an analysis is modelled by the set of phrases it contains.
\* Without an API key analyzeContract answers
\* 'AI analysis unavailable: API key not configured', which holds none of them.
Unavailable == {}

AnalysisTexts ==
  { {}, {"reentrancy"}, {"underflow", "gas optimization"} }

\* usage.total_tokens of an answer: below the daily limit, and the limit itself
TokenCounts == {60000, DAILY_TOKEN_LIMIT}

(***************************************************************************)
(* MonitorService (server/services/monitor.ts): the synchronous parts.     *)
(***************************************************************************)
isActive == isRunning

\* a createAlert that takes the id of the alert for the id of the contract
monitorCreateAlertWrongId(s, contract, severity, title) ==
  createAlert(s, [contractId |-> s.alertCurrentId, severity |-> severity,
                  title |-> title, resolved |-> FALSE])

\* a createAlert that stores the alert as resolved
monitorCreateAlertResolved(s, contract, severity, title) ==
  createAlert(s, [contractId |-> contract.id, severity |-> severity,
                  title |-> title, resolved |-> TRUE])

\* MonitorService.createAlert: storage.createAlert runs before its first await
monitorCreateAlert(s, contract, severity, title) ==
  createAlert(s, [contractId |-> contract.id, severity |-> severity,
                  title |-> title, resolved |-> FALSE])

suspiciousEventCount(recentEvents) ==
  Len(SelectSeq(recentEvents,
                LAMBDA event : event.eventName = "BadgeClaim"
                               \/ event.eventName = "AlertSubmitted"))

\* a checkContractHealth that writes the severity of its alert as the status
checkContractHealthSeverityAsStatus(s, contract, code) ==
  IF code = "throw"
  THEN monitorCreateAlert(s, contract, "LOW", "Error monitoring contract")
  ELSE IF code = "" \/ code = "0x"
  THEN updateContractStatus(
         monitorCreateAlert(s, contract, "HIGH", "Contract unavailable"),
         contract.id, "HIGH")
  ELSE LET recentEvents == getEventsByContract(s, contract.id, 10)
       IN IF Len(recentEvents) = 0
          THEN updateContractStatus(s, contract.id, "HEALTHY")
          ELSE IF suspiciousEventCount(recentEvents) >= 3
          THEN updateContractStatus(
                 monitorCreateAlert(s, contract, "MEDIUM",
                                    "Unusual event pattern detected"),
                 contract.id, "MEDIUM")
          ELSE s

\* a checkContractHealth without its catch block
checkContractHealthUncaught(s, contract, code) ==
  IF code = "throw" THEN s
  ELSE IF code = "" \/ code = "0x"
  THEN updateContractStatus(
         monitorCreateAlert(s, contract, "HIGH", "Contract unavailable"),
         contract.id, "ALERT")
  ELSE LET recentEvents == getEventsByContract(s, contract.id, 10)
       IN IF Len(recentEvents) = 0
          THEN updateContractStatus(s, contract.id, "HEALTHY")
          ELSE IF suspiciousEventCount(recentEvents) >= 3
          THEN updateContractStatus(
                 monitorCreateAlert(s, contract, "MEDIUM",
                                    "Unusual event pattern detected"),
                 contract.id, "WARNING")
          ELSE s

\* checkContractHealth once getContractCode has settled with `code`
\* a checkContractHealth that leaves a contract without events as it is
checkContractHealthNoEventsIgnored(s, contract, code) ==
  IF code = "throw"
  THEN monitorCreateAlert(s, contract, "LOW", "Error monitoring contract")
  ELSE IF code = "" \/ code = "0x"
  THEN updateContractStatus(
         monitorCreateAlert(s, contract, "HIGH", "Contract unavailable"),
         contract.id, "ALERT")
  ELSE LET recentEvents == getEventsByContract(s, contract.id, 10)
       IN IF suspiciousEventCount(recentEvents) >= 3
          THEN updateContractStatus(
                 monitorCreateAlert(s, contract, "MEDIUM",
                                    "Unusual event pattern detected"),
                 contract.id, "WARNING")
          ELSE s

checkContractHealth(s, contract, code) ==
  IF code = "throw"
  THEN monitorCreateAlert(s, contract, "LOW", "Error monitoring contract")
  ELSE IF code = "" \/ code = "0x"
  THEN updateContractStatus(
         monitorCreateAlert(s, contract, "HIGH", "Contract unavailable"),
         contract.id, "ALERT")
  ELSE LET recentEvents == getEventsByContract(s, contract.id, 10)
       IN IF Len(recentEvents) = 0
          THEN updateContractStatus(s, contract.id, "HEALTHY")
          ELSE IF suspiciousEventCount(recentEvents) >= 3
          THEN updateContractStatus(
                 monitorCreateAlert(s, contract, "MEDIUM",
                                    "Unusual event pattern detected"),
                 contract.id, "WARNING")
          ELSE s

\* pattern.test(analysis): a pattern is the set of phrases it matches
vulnerabilityIndicators ==
  << [pattern |-> {"reentrancy"}, severity |-> "HIGH",
      title |-> "Reentrancy vulnerability"],
     [pattern |-> {"access control"}, severity |-> "HIGH",
      title |-> "Access control issue"],
     [pattern |-> {"overflow", "underflow"}, severity |-> "MEDIUM",
      title |-> "Integer overflow/underflow"],
     [pattern |-> {"front-running", "frontrunning", "front running"},
      severity |-> "MEDIUM", title |-> "Front-running vulnerability"],
     [pattern |-> {"logic error"}, severity |-> "MEDIUM", title |-> "Logic error"],
     [pattern |-> {"gas optimization"}, severity |-> "LOW",
      title |-> "Gas optimization issue"] >>

test(pattern, analysis) == pattern \cap analysis # {}

\* the loop without its `break`: every matching indicator is acted upon
RECURSIVE checkIndicatorsNoBreak(_, _, _, _)
checkIndicatorsNoBreak(s, contract, analysis, i) ==
  IF i > Len(vulnerabilityIndicators) THEN s
  ELSE LET ind == vulnerabilityIndicators[i]
       IN IF test(ind.pattern, analysis)
          THEN LET s1 == monitorCreateAlert(s, contract, ind.severity, ind.title)
                   s2 == IF ind.severity = "HIGH"
                         THEN updateContractStatus(s1, contract.id, "ALERT")
                         ELSE IF ind.severity = "MEDIUM" /\ contract.status # "ALERT"
                         THEN updateContractStatus(s1, contract.id, "WARNING")
                         ELSE s1
               IN checkIndicatorsNoBreak(s2, contract, analysis, i + 1)
          ELSE checkIndicatorsNoBreak(s, contract, analysis, i + 1)

\* the loop over vulnerabilityIndicators of analyzeContractWithAI, from index i;
\* `contract` is the object the caller holds, its status is not re-read
RECURSIVE checkIndicators(_, _, _, _)
checkIndicators(s, contract, analysis, i) ==
  IF i > Len(vulnerabilityIndicators) THEN s
  ELSE LET ind == vulnerabilityIndicators[i]
       IN IF test(ind.pattern, analysis)
          THEN LET s1 == monitorCreateAlert(s, contract, ind.severity, ind.title)
               IN IF ind.severity = "HIGH"
                  THEN updateContractStatus(s1, contract.id, "ALERT")
                  ELSE IF ind.severity = "MEDIUM" /\ contract.status # "ALERT"
                  THEN updateContractStatus(s1, contract.id, "WARNING")
                  ELSE s1
          ELSE checkIndicators(s, contract, analysis, i + 1)

(***************************************************************************)
(* The event loop: timers and async calls.                                 *)
(***************************************************************************)
IdleTask ==
  [kind |-> "idle", pc |-> "idle", waiting |-> FALSE, queue |-> <<>>,
   checked |-> <<>>, http |-> FALSE]

FreeSlots == {t \in Slots : tasks[t].kind = "idle"}

FreeSlot == CHOOSE t \in FreeSlots : \A u \in FreeSlots : t <= u

\* the event loop is idle: a timer callback or a request handler may run
Idle == booted /\ running = 0

\* the call in slot t may go on: its microtask chain is executing, or the I/O
\* it awaits has completed and the event loop is idle
Runnable(t) == running = t \/ (running = 0 /\ tasks[t].waiting)

\* the call in slot t reaches an await: of real I/O (io) or of a settled promise
Await(t, task, io) ==
  /\ tasks' = [tasks EXCEPT ![t] = [task EXCEPT !.waiting = io]]
  /\ running' = IF io THEN 0 ELSE t

Return(t) ==
  /\ tasks' = [tasks EXCEPT ![t] = IdleTask]
  /\ running' = 0

\* setInterval: a handle no scheduled timer has
NewTimer(ts) ==
  CHOOSE h \in 1..(Cardinality(ts) + 1) :
    /\ \A x \in ts : x.id # h
    /\ \A g \in 1..(h - 1) : \E x \in ts : x.id = g

setInterval(ts, kind) == ts \cup {[id |-> NewTimer(ts), kind |-> kind]}

clearInterval(ts, h) == {x \in ts : x.id # h}

\* the state once the modules are loaded: `storage`, `blockchainService` (its
\* constructor reads the mode), `groqService` and `monitorService` exist
Constructed(demo) ==
  /\ storage = MemStorage
  /\ isRunning = FALSE
  /\ checkInterval = 0
  /\ analysisInterval = 0
  /\ timers = {}
  /\ demoMode = demo
  /\ listeners = {}
  /\ hasApiKey \in BOOLEAN
  /\ booted = FALSE
  /\ tasks = [t \in Slots |-> IdleTask]
  /\ running = 0
  /\ response = <<0, "">>
  /\ lastStart = [returned |-> FALSE, value |-> FALSE, activated |-> FALSE,
                  checked |-> <<>>]
  /\ lastCheck = [contractId |-> 0, code |-> ""]
  /\ stopReturned = FALSE
  /\ now = 0

Init == Constructed(DEMO_MODE)

\* a runSecurityChecks whose guard is inverted
runSecurityChecksInverted(active, s) == IF active THEN <<>> ELSE getContracts(s)

\* runSecurityChecks() up to its loop: the contracts the cycle will check
runSecurityChecks(active, s) == IF ~active THEN <<>> ELSE getContracts(s)

\* runAIAnalysis() up to its loop: the contracts the cycle will analyze
runAIAnalysis(active, s) ==
  IF ~active \/ ~isWithinUsageLimit(s) THEN <<>> ELSE getContracts(s)

\* a start() without the test of isRunning on entry
startUnguarded(t, http, s, demo) ==
  /\ stopReturned' = FALSE
  /\ IF demo
     THEN /\ Len(s.events) + 3 <= MaxEvents
          /\ storage' = initialize(s, now)
          /\ Await(t, [IdleTask EXCEPT !.kind = "start", !.pc = "aiInit",
                                       !.http = http], hasApiKey)
          /\ UNCHANGED <<lastStart, response>>
     ELSE /\ storage' = s
          /\ Await(t, [IdleTask EXCEPT !.kind = "start", !.pc = "bcInit",
                                       !.http = http], TRUE)
          /\ UNCHANGED <<lastStart, response>>

(***************************************************************************)
(* MonitorService.start(), called with the store `s` while the blockchain  *)
(* service is in mode `demo`, up to its first await of real I/O.  The call *)
(* takes slot t; http says a request handler awaits it.                    *)
(* blockchainService.initialize() settles within the microtask chain in    *)
(* demo mode and awaits provider.getBlockNumber() otherwise;               *)
(* groqService.initialize() returns false at once without an API key and   *)
(* awaits a fetch with one.                                                *)
(***************************************************************************)
start(t, http, s, demo) ==
  /\ stopReturned' = FALSE
  /\ IF isRunning
     THEN /\ storage' = s
          /\ lastStart' = [returned |-> TRUE, value |-> TRUE, activated |-> FALSE,
                           checked |-> <<>>]
          /\ response' = IF http
                         THEN <<200, "Monitoring service started successfully">>
                         ELSE response
          /\ Return(t)
     ELSE IF demo
     THEN /\ Len(s.events) + 3 <= MaxEvents
          /\ storage' = initialize(s, now)
          /\ Await(t, [IdleTask EXCEPT !.kind = "start", !.pc = "aiInit",
                                       !.http = http], hasApiKey)
          /\ UNCHANGED <<lastStart, response>>
     ELSE /\ storage' = s
          /\ Await(t, [IdleTask EXCEPT !.kind = "start", !.pc = "bcInit",
                                       !.http = http], TRUE)
          /\ UNCHANGED <<lastStart, response>>

\* registerRoutes: awaits blockchainService.initialize(), then calls
\* monitorService.start() without awaiting it and registers the routes
RegisterRoutes ==
  /\ ~booted
  /\ running = 0
  /\ \A t \in Slots : tasks[t].kind = "idle"
  /\ IF demoMode
     THEN /\ Len(storage.events) + 3 <= MaxEvents
          /\ booted' = TRUE
          /\ start(FreeSlot, FALSE, initialize(storage, now), TRUE)
     ELSE /\ Await(FreeSlot, [IdleTask EXCEPT !.kind = "boot", !.pc = "bcInit"], TRUE)
          /\ UNCHANGED <<storage, booted, response, lastStart, stopReturned>>
  /\ UNCHANGED <<isRunning, checkInterval, analysisInterval, timers, demoMode,
                 listeners, hasApiKey, lastCheck, now>>

\* blockchainService.initialize() outside demo mode, from the moment
\* provider.getBlockNumber() settles, and what its caller does next:
\* registerRoutes calls start() and registers the routes, start() calls
\* groqService.initialize()
InitializeLive(t) ==
  /\ tasks[t].pc = "bcInit"
  /\ Runnable(t)
  /\ \E connected \in BOOLEAN :
       LET s1 == IF connected THEN storage ELSE initialize(storage, now)
           demo == demoMode \/ ~connected
       IN /\ connected \/ Len(storage.events) + 3 <= MaxEvents
          /\ demoMode' = demo
          /\ listeners' = IF connected
                          THEN initializeContract(listeners, getContracts(storage))
                          ELSE listeners
          /\ IF tasks[t].kind = "boot"
             THEN /\ booted' = TRUE
                  /\ start(t, FALSE, s1, demo)
             ELSE /\ storage' = s1
                  /\ Await(t, [tasks[t] EXCEPT !.pc = "aiInit"], hasApiKey)
                  /\ UNCHANGED <<booted, response, lastStart, stopReturned>>
  /\ UNCHANGED <<isRunning, checkInterval, analysisInterval, timers, hasApiKey,
                 lastCheck, now>>

\* the event of the chain tried: a BadgeClaim of the Guardian Badge contract
DetectedEvents ==
  {[address |-> "0x525975C25823ecb3a3875F577a5B9574aB758197",
    eventName |-> "BadgeClaim"]}

\* the listener setupEventListeners registered for an event of a contract
EventDetected(detected) ==
  /\ running = 0
  /\ detected.address \in listeners
  /\ Len(storage.events) < MaxDetected
  /\ LET contract == getContractByAddress(storage, detected.address)[1]
     IN storage' = createEvent(storage, [contractId |-> contract.id,
                                         eventName |-> detected.eventName], now)
  /\ UNCHANGED <<isRunning, checkInterval, analysisInterval, timers, demoMode,
                 listeners, hasApiKey, booted, tasks, running, response, lastStart,
                 lastCheck, stopReturned, now>>

\* the call in slot t has checked the contracts `checked` and `rest` is left:
\* it awaits the next getContractCode, or, at the end of the cycle, returns
\* (start() returns true; scanContract goes on with analyzeContractWithAI)
ContinueChecks(t, rest, checked) ==
  IF rest # <<>>
  THEN /\ Await(t, [tasks[t] EXCEPT !.pc = "check", !.queue = rest,
                                    !.checked = checked], ~demoMode)
       /\ UNCHANGED <<lastStart, response>>
  ELSE CASE tasks[t].kind = "start" ->
              /\ Return(t)
              /\ lastStart' = [returned |-> TRUE, value |-> TRUE,
                               activated |-> TRUE, checked |-> checked]
              /\ response' = IF tasks[t].http
                             THEN <<200, "Monitoring service started successfully">>
                             ELSE response
         [] tasks[t].kind = "timer" ->
              /\ Return(t)
              /\ UNCHANGED <<lastStart, response>>
         [] tasks[t].kind = "scan" ->
              /\ Await(t, [tasks[t] EXCEPT !.pc = "code", !.checked = checked],
                       ~demoMode)
              /\ UNCHANGED <<lastStart, response>>

\* start() after groqService.initialize() has settled: isRunning, the two
\* timers, and the call of runSecurityChecks() up to its first await
StartMonitoring(t) ==
  /\ tasks[t].kind = "start"
  /\ tasks[t].pc = "aiInit"
  /\ Runnable(t)
  /\ Cardinality(timers) + 2 <= MaxTimers
  /\ isRunning' = TRUE
  /\ LET withCheck == setInterval(timers, "check")
     IN /\ checkInterval' = NewTimer(timers)
        /\ analysisInterval' = NewTimer(withCheck)
        /\ timers' = setInterval(withCheck, "analysis")
  /\ ContinueChecks(t, runSecurityChecks(TRUE, storage), <<>>)
  /\ UNCHANGED <<storage, demoMode, listeners, hasApiKey, booted, lastCheck,
                 stopReturned, now>>

\* MonitorService.stop()
stop ==
  /\ isRunning' = FALSE
  /\ timers' = clearInterval(clearInterval(timers, checkInterval), analysisInterval)
  /\ checkInterval' = 0
  /\ analysisInterval' = 0
  /\ stopReturned' = TRUE

\* MaxMonitorAlerts cuts off the cycles of timers and scans, which recur
\* without end.  The cycles of start() in demo mode are left alone: start()
\* seeds three events each time and MaxEvents cuts that off.
WithinBounds(t, s1) ==
  \/ demoMode /\ tasks[t].kind = "start"
  \/ Len(monitorAlerts(s1)) <= MaxMonitorAlerts

\* one turn of the loop of runSecurityChecks (or the health check of
\* scanContract): checkContractHealth(contract) from the moment getContractCode
\* settles, and what follows it up to the next await of the call.  A call that
\* waits asked the provider; one that does not got the demo bytecode.
CheckContractHealth(t) ==
  /\ tasks[t].pc = "check"
  /\ Runnable(t)
  /\ \E code \in getContractCode(~tasks[t].waiting) :
       LET contract == Head(tasks[t].queue)
           s1 == checkContractHealth(storage, contract, code)
       IN /\ WithinBounds(t, s1)
          /\ storage' = s1
          /\ lastCheck' = [contractId |-> contract.id, code |-> code]
          /\ ContinueChecks(t, Tail(tasks[t].queue),
                            Append(tasks[t].checked, contract.id))
  /\ UNCHANGED <<isRunning, checkInterval, analysisInterval, timers, demoMode,
                 listeners, hasApiKey, booted, stopReturned, now>>

\* the call in slot t (a timer callback or a request handler that just began)
\* starts on its list of contracts, or returns at once when the list is empty
Begin(t, task) ==
  IF task.queue = <<>>
  THEN UNCHANGED <<tasks, running>>
  ELSE Await(t, task, ~demoMode)

\* a health-check timer that fires once, as one set with setTimeout would
HealthTimerFiresOnce(h) ==
  /\ Idle
  /\ [id |-> h, kind |-> "check"] \in timers
  /\ FreeSlots # {}
  /\ Begin(FreeSlot, [IdleTask EXCEPT !.kind = "timer", !.pc = "check",
                        !.queue = runSecurityChecks(isRunning, storage)])
  /\ timers' = clearInterval(timers, h)
  /\ UNCHANGED <<storage, isRunning, checkInterval, analysisInterval, demoMode,
                 listeners, hasApiKey, booted, response, lastStart, lastCheck,
                 stopReturned, now>>

\* the callback of a health-check timer: runSecurityChecks() up to its first await
HealthTimerFires(h) ==
  /\ Idle
  /\ [id |-> h, kind |-> "check"] \in timers
  /\ FreeSlots # {}
  /\ Begin(FreeSlot, [IdleTask EXCEPT !.kind = "timer", !.pc = "check",
                        !.queue = runSecurityChecks(isRunning, storage)])
  /\ UNCHANGED <<storage, isRunning, checkInterval, analysisInterval, timers,
                 demoMode, listeners, hasApiKey, booted, response, lastStart,
                 lastCheck, stopReturned, now>>

\* what a call does after analyzeContractWithAI(contract) returned
NextAnalysis(t, rest) ==
  IF rest # <<>>
  THEN /\ Await(t, [tasks[t] EXCEPT !.pc = "code", !.queue = rest], ~demoMode)
       /\ UNCHANGED response
  ELSE /\ Return(t)
       /\ response' = IF tasks[t].kind = "scan"
                      THEN <<200, "Contract analysis started">>
                      ELSE response

\* the callback of an analysis timer: runAIAnalysis() up to its first await
AnalysisTimerFires(h) ==
  /\ Idle
  /\ [id |-> h, kind |-> "analysis"] \in timers
  /\ FreeSlots # {}
  /\ Begin(FreeSlot, [IdleTask EXCEPT !.kind = "analysis", !.pc = "code",
                        !.queue = runAIAnalysis(isRunning, storage)])
  /\ UNCHANGED <<storage, isRunning, checkInterval, analysisInterval, timers,
                 demoMode, listeners, hasApiKey, booted, response, lastStart,
                 lastCheck, stopReturned, now>>

\* analyzeContractWithAI(contract) from the moment getContractCode settles up
\* to the call of groqService.analyzeContract, which awaits a fetch when there
\* is an API key
AnalyzeGetCode(t) ==
  /\ tasks[t].pc = "code"
  /\ Runnable(t)
  /\ \E code \in getContractCode(~tasks[t].waiting) :
       IF code \in {"throw", "", "0x"}
       THEN NextAnalysis(t, Tail(tasks[t].queue))
       ELSE /\ Await(t, [tasks[t] EXCEPT !.pc = "groq"], hasApiKey)
            /\ UNCHANGED response
  /\ UNCHANGED <<storage, isRunning, checkInterval, analysisInterval, timers,
                 demoMode, listeners, hasApiKey, booted, lastStart, lastCheck,
                 stopReturned, now>>

\* `Error analyzing contract: ${message}`, the analysis after a failed fetch: the
\* message of a network or API error, which names no vulnerability
ErrorAnalyzing == {}

\* what the fetch of groqService.analyzeContract may answer: a text and a token
\* count (ok), or a failure
FetchOutcomes ==
  {[ok |-> TRUE, text |-> x, tokenCount |-> n] : x \in AnalysisTexts, n \in TokenCounts}
    \cup {[ok |-> FALSE, text |-> ErrorAnalyzing, tokenCount |-> 0]}

\* groqService.analyzeContract: the store and the analysis it returns.  Without
\* an API key it returns at once; with one, an answer of the fetch is recorded
\* as an AI query.
analyzeContract(s, contract, fetched) ==
  IF ~hasApiKey THEN [store |-> s, analysis |-> Unavailable]
  ELSE IF fetched.ok
  THEN [store |-> createAiQuery(s, [contractId |-> contract.id,
                                    tokenCount |-> fetched.tokenCount], now),
        analysis |-> fetched.text]
  ELSE [store |-> s, analysis |-> fetched.text]

\* analyzeContractWithAI(contract) from the moment analyzeContract settles
AnalyzeGroq(t) ==
  /\ tasks[t].pc = "groq"
  /\ Runnable(t)
  /\ \E fetched \in FetchOutcomes :
       LET contract == Head(tasks[t].queue)
           r == analyzeContract(storage, contract, fetched)
           s1 == checkIndicators(r.store, contract, r.analysis, 1)
       IN /\ Len(s1.aiQueries) <= MaxQueries
          /\ Len(monitorAlerts(s1)) <= MaxMonitorAlerts
          /\ storage' = s1
  /\ NextAnalysis(t, Tail(tasks[t].queue))
  /\ UNCHANGED <<isRunning, checkInterval, analysisInterval, timers, demoMode,
                 listeners, hasApiKey, booted, lastStart, lastCheck, stopReturned,
                 now>>

(***************************************************************************)
(* The REST routes that change state (server/routes.ts).                   *)
(***************************************************************************)
\* POST /api/monitor/start, up to the first await of real I/O of start()
PostMonitorStart ==
  /\ Idle
  /\ FreeSlots # {}
  /\ IF isActive
     THEN /\ response' = <<200, "Monitoring service is already running">>
          /\ UNCHANGED <<storage, tasks, running, lastStart, stopReturned>>
     ELSE start(FreeSlot, TRUE, storage, demoMode)
  /\ UNCHANGED <<isRunning, checkInterval, analysisInterval, timers, demoMode,
                 listeners, hasApiKey, booted, lastCheck, now>>

\* POST /api/monitor/stop
PostMonitorStop ==
  /\ Idle
  /\ IF ~isActive
     THEN /\ response' = <<200, "Monitoring service is already stopped">>
          /\ UNCHANGED <<isRunning, checkInterval, analysisInterval, timers,
                         stopReturned>>
     ELSE /\ stop
          /\ response' = <<200, "Monitoring service stopped">>
  /\ UNCHANGED <<storage, demoMode, listeners, hasApiKey, booted, tasks, running,
                 lastStart, lastCheck, now>>

\* the request bodies tried: one that fails the schema, the id of no contract
\* and the id of the Guardian Feed contract
AnalyzeBodies ==
  {[valid |-> FALSE, contractId |-> 0], [valid |-> TRUE, contractId |-> 0],
   [valid |-> TRUE, contractId |-> 1]}

\* POST /api/ai/analyze-contract, up to the first await of real I/O of
\* monitorService.scanContract(contract.address)
PostAnalyzeContract(body) ==
  /\ Idle
  /\ FreeSlots # {}
  /\ IF ~body.valid
     THEN /\ response' = <<400, "Invalid request data">>
          /\ UNCHANGED <<tasks, running>>
     ELSE IF ~MapHas(storage.contracts, body.contractId)
     THEN /\ response' = <<404, "Contract not found">>
          /\ UNCHANGED <<tasks, running>>
     ELSE LET address == MapGet(storage.contracts, body.contractId).address
              found == getContractByAddress(storage, address)
          IN /\ Await(FreeSlot, [IdleTask EXCEPT !.kind = "scan", !.pc = "check",
                                                 !.http = TRUE,
                                                 !.queue = <<found[1]>>],
                      ~demoMode)
             /\ UNCHANGED response
  /\ UNCHANGED <<storage, isRunning, checkInterval, analysisInterval, timers,
                 demoMode, listeners, hasApiKey, booted, lastStart, lastCheck,
                 stopReturned, now>>

\* A string is the sequence of its characters.
DigitValue ==
  [c \in {"0", "1", "2", "3", "4", "5", "6", "7", "8", "9"} |->
     CASE c = "0" -> 0 [] c = "1" -> 1 [] c = "2" -> 2 [] c = "3" -> 3
       [] c = "4" -> 4 [] c = "5" -> 5 [] c = "6" -> 6 [] c = "7" -> 7
       [] c = "8" -> 8 [] c = "9" -> 9]

\* what parseInt answers for a string that does not start with a digit (leading
\* white space, a sign and the 0x prefix, which parseInt accepts, are not tried)
NaN == 0 - 1

isNaN(n) == n = NaN

\* the number written by the digits a string starts with, acc being the
\* number read so far
RECURSIVE ParseDigits(_, _)
ParseDigits(str, acc) ==
  IF str = <<>> \/ Head(str) \notin DOMAIN DigitValue THEN acc
  ELSE ParseDigits(Tail(str), 10 * acc + DigitValue[Head(str)])

\* parseInt(string): the digits at the start are read and the rest is ignored
parseInt(str) ==
  IF str = <<>> \/ Head(str) \notin DOMAIN DigitValue THEN NaN
  ELSE ParseDigits(str, 0)

\* the :id parameters tried: "x", "0" (the id of no alert), "1" (the id of
\* the first alert) and "1x"
ResolveParams == {<<"x">>, <<"0">>, <<"1">>, <<"1", "x">>}

\* POST /api/alerts/:id/resolve
PostResolveAlert(param) ==
  /\ Idle
  /\ LET id == parseInt(param)
     IN IF isNaN(id)
        THEN /\ response' = <<400, "Invalid alert ID">>
             /\ UNCHANGED storage
        ELSE IF ~MapHas(storage.alerts, id)
        THEN /\ response' = <<404, "Alert not found">>
             /\ UNCHANGED storage
        ELSE /\ storage' = resolveAlert(storage, id)
             /\ response' = <<200, "alert", MapGet(storage'.alerts, id)>>
  /\ UNCHANGED <<isRunning, checkInterval, analysisInterval, timers, demoMode,
                 listeners, hasApiKey, booted, tasks, running, lastStart, lastCheck,
                 stopReturned, now>>

Next ==
  \/ RegisterRoutes
  \/ \E t \in Slots : StartMonitoring(t)
  \/ \E t \in Slots : CheckContractHealth(t)
  \/ \E t \in Slots : AnalyzeGetCode(t)
  \/ \E t \in Slots : AnalyzeGroq(t)
  \/ \E h \in 1..MaxTimers : HealthTimerFires(h)
  \/ \E h \in 1..MaxTimers : AnalysisTimerFires(h)
  \/ PostMonitorStart
  \/ PostMonitorStop
  \/ \E body \in AnalyzeBodies : PostAnalyzeContract(body)
  \/ \E param \in ResolveParams : PostResolveAlert(param)

Spec == Init /\ [][Next]_vars

(***************************************************************************)
(* The server, and a caller of monitorService.start() that does not ask    *)
(* isActive() first.                                                       *)
(***************************************************************************)
MonitorServiceStart ==
  /\ Idle
  /\ FreeSlots # {}
  /\ start(FreeSlot, FALSE, storage, demoMode)
  /\ UNCHANGED <<isRunning, checkInterval, analysisInterval, timers, demoMode,
                 listeners, hasApiKey, booted, lastCheck, now>>

NextApi ==
  \/ Next
  \/ MonitorServiceStart

SpecApi == Init /\ [][NextApi]_vars

(***************************************************************************)
(* The server without a GROQ_API_KEY whose monitor is started once, with   *)
(* the scheduling of Node: a timer that is due is run once the event loop  *)
(* is idle, and a continuation that is ready is run.                       *)
(***************************************************************************)
InitFair == Init /\ ~hasApiKey

\* a stopped monitor is not started again: each start() seeds three more demo
\* events, and with nine every cycle records alerts without end
NextFair ==
  \/ RegisterRoutes
  \/ \E t \in Slots : StartMonitoring(t)
  \/ \E t \in Slots : CheckContractHealth(t)
  \/ \E t \in Slots : AnalyzeGetCode(t)
  \/ \E t \in Slots : AnalyzeGroq(t)
  \/ \E h \in 1..MaxTimers : HealthTimerFires(h)
  \/ \E h \in 1..MaxTimers : AnalysisTimerFires(h)
  \/ PostMonitorStart /\ Len(storage'.events) <= MaxSeededEvents
  \/ PostMonitorStop
  \/ \E body \in AnalyzeBodies : PostAnalyzeContract(body)
  \/ \E param \in ResolveParams : PostResolveAlert(param)

Fairness ==
  /\ \A h \in 1..MaxTimers : SF_vars(HealthTimerFires(h))
  /\ \A t \in Slots : WF_vars(StartMonitoring(t))
  /\ \A t \in Slots : WF_vars(CheckContractHealth(t))
  /\ \A t \in Slots : WF_vars(AnalyzeGetCode(t))
  /\ \A t \in Slots : WF_vars(AnalyzeGroq(t))

SpecFair == InitFair /\ [][NextFair]_vars /\ Fairness

(***************************************************************************)
(* The server with the blockchain service constructed outside demo mode:   *)
(* the constructor creates a JSON-RPC provider, initialize() connects and  *)
(* listens to the contracts, getContractCode() asks the provider.  There   *)
(* is no GROQ_API_KEY, and the server is left alone after it booted: the   *)
(* timers fire and the chain emits events, no HTTP request comes in.       *)
(***************************************************************************)
InitLive == Constructed(FALSE) /\ ~hasApiKey

NextLive ==
  \/ RegisterRoutes
  \/ \E t \in Slots : InitializeLive(t)
  \/ \E detected \in DetectedEvents : EventDetected(detected)
  \/ \E t \in Slots : StartMonitoring(t)
  \/ \E t \in Slots : CheckContractHealth(t)
  \/ \E t \in Slots : AnalyzeGetCode(t)
  \/ \E t \in Slots : AnalyzeGroq(t)
  \/ \E h \in 1..MaxTimers : HealthTimerFires(h)
  \/ \E h \in 1..MaxTimers : AnalysisTimerFires(h)

SpecLive == InitLive /\ [][NextLive]_vars

(***************************************************************************)
(* The store on its own: every operation of IStorage that writes, called   *)
(* with arguments from small sets.                                         *)
(***************************************************************************)
StoreOnly ==
  UNCHANGED <<isRunning, checkInterval, analysisInterval, timers, demoMode, listeners,
              hasApiKey, booted, tasks, running, response, lastStart,
              lastCheck, stopReturned, now>>

StoreCreateUser ==
  /\ Len(storage.users) < MaxStoreRecords
  /\ \E username \in {"alice"} :
       storage' = createUser(storage, [username |-> username])
  /\ StoreOnly

StoreCreateContract ==
  /\ Len(storage.contracts) < 3 + MaxStoreRecords
  /\ \E insertContract \in
         {[name |-> "Vault", address |-> "0xabc", type |-> "DAO"],
          [name |-> "Vault", address |-> "0xabc", type |-> "FEED",
           status |-> "WARNING"]} :
       storage' = createContract(storage, insertContract)
  /\ StoreOnly

StoreUpdateContractStatus ==
  /\ \E id \in {1, 4, 3 + MaxStoreRecords + 1}, status \in {"ALERT"} :
       storage' = updateContractStatus(storage, id, status)
  /\ StoreOnly

StoreCreateAlert ==
  /\ Len(storage.alerts) < MaxStoreRecords
  /\ \E insertAlert \in
         {[contractId |-> 1, severity |-> "LOW", title |-> "a"],
          [contractId |-> 2, severity |-> "HIGH", title |-> "b",
           resolved |-> TRUE]} :
       storage' = createAlert(storage, insertAlert)
  /\ StoreOnly

StoreResolveAlert ==
  /\ \E id \in 1..(MaxStoreRecords + 1) : storage' = resolveAlert(storage, id)
  /\ StoreOnly

StoreCreateEvent ==
  /\ Len(storage.events) < MaxStoreRecords
  /\ \E contractId \in {1}, eventName \in {"Vote", "BadgeClaim"} :
       storage' = createEvent(storage, [contractId |-> contractId,
                                        eventName |-> eventName], now)
  /\ StoreOnly

StoreCreateAiQuery ==
  /\ Len(storage.aiQueries) < MaxStoreRecords
  /\ \E contractId \in {2}, tokenCount \in {60000} :
       storage' = createAiQuery(storage, [contractId |-> contractId,
                                          tokenCount |-> tokenCount], now)
  /\ StoreOnly

NextStore ==
  \/ StoreCreateUser
  \/ StoreCreateContract
  \/ StoreUpdateContractStatus
  \/ StoreCreateAlert
  \/ StoreResolveAlert
  \/ StoreCreateEvent
  \/ StoreCreateAiQuery

SpecStore == Init /\ [][NextStore]_vars

(* analyzeContractWithAI on its own: the part after groqService has        *)
(* answered, for every analysis text built from the phrases the indicators *)
(* look for, and for a `contract` object whose status may be older than    *)
(* the one in the store.                                                   *)
(***************************************************************************)
Statuses == {"HEALTHY", "WARNING", "ALERT"}

Phrases ==
  {"reentrancy", "access control", "overflow", "front-running", "logic error",
   "gas optimization"}

\* the texts that hold at most two of the phrases or all of them, and the
\* other spellings the patterns accept
Analyses ==
  {x \in SUBSET Phrases : Cardinality(x) <= 2 \/ x = Phrases}
    \cup {{"underflow"}, {"frontrunning"}, {"front running"}}

\* the objects a caller may hold for the contracts of the store
Snapshots(s) ==
  {[c EXCEPT !.status = status] :
     c \in {getContracts(s)[i] : i \in DOMAIN getContracts(s)}, status \in Statuses}

AnalyzeContractWithAI(contract, analysis) ==
  /\ LET s1 == checkIndicators(storage, contract, analysis, 1)
     IN /\ Len(monitorAlerts(s1)) <= MaxMonitorAlerts
        /\ storage' = s1
  /\ StoreOnly

NextIndicators ==
  \E contract \in Snapshots(storage), analysis \in Analyses :
     AnalyzeContractWithAI(contract, analysis)

SpecIndicators == Init /\ [][NextIndicators]_vars

(* checkContractHealth on its own, on stores that hold a history of events *)
(* of one contract: up to MaxHistory events, longer than the 10 events the *)
(* check looks at, of which up to MaxSuspicious have a suspicious name.    *)
(* The code of the contracts is available, as it is in demo mode.          *)
(***************************************************************************)
\* the names of a history of n events, those at the given positions suspicious
EventNames(n, positions) ==
  [i \in 1..n |-> IF i \notin positions THEN "ProposalCreated"
                  ELSE IF i % 2 = 1 THEN "BadgeClaim" ELSE "AlertSubmitted"]

\* the clock when the i-th event is stored: it never goes back, and with
\* `ties` two events in a row are stored at the same time
DateOf(i, ties) == IF ties THEN (i + 1) \div 2 ELSE i

RECURSIVE WithEvents(_, _, _, _)
WithEvents(s, contractId, names, ties) ==
  IF names = <<>> THEN s
  ELSE createEvent(WithEvents(s, contractId, SubSeq(names, 1, Len(names) - 1), ties),
                   [contractId |-> contractId, eventName |-> names[Len(names)]],
                   DateOf(Len(names), ties))

\* three events of the Guardian DAO contract and the demo alerts
WithOtherRecords(s) ==
  createDemoAlerts(WithEvents(s, 2, EventNames(3, {1, 2, 3}), FALSE))

HealthStores ==
  {WithEvents(base, contractId, EventNames(n, positions), ties) :
     base \in {MemStorage, WithOtherRecords(MemStorage)},
     contractId \in {1, 3},
     n \in 0..MaxHistory,
     positions \in {x \in SUBSET (1..MaxHistory) : Cardinality(x) <= MaxSuspicious},
     ties \in BOOLEAN}

InitHealth ==
  /\ storage \in HealthStores
  /\ isRunning = FALSE
  /\ checkInterval = 0
  /\ analysisInterval = 0
  /\ timers = {}
  /\ demoMode = DEMO_MODE
  /\ listeners = {}
  /\ hasApiKey = FALSE
  /\ booted = FALSE
  /\ tasks = [t \in Slots |-> IdleTask]
  /\ running = 0
  /\ response = <<0, "">>
  /\ lastStart = [returned |-> FALSE, value |-> FALSE, activated |-> FALSE,
                  checked |-> <<>>]
  /\ lastCheck = [contractId |-> 0, code |-> ""]
  /\ stopReturned = FALSE
  /\ now = 0

HealthCheck(contract, code) ==
  /\ LET s1 == checkContractHealth(storage, contract, code)
     IN /\ Len(monitorAlerts(s1)) <= MaxMonitorAlerts
        /\ storage' = s1
  /\ lastCheck' = [contractId |-> contract.id, code |-> code]
  /\ UNCHANGED <<isRunning, checkInterval, analysisInterval, timers, demoMode,
                 listeners, hasApiKey, booted, tasks, running, response, lastStart,
                 stopReturned, now>>

NextHealth ==
  \E i \in DOMAIN getContracts(storage), code \in getContractCode(demoMode) :
     HealthCheck(getContracts(storage)[i], code)

SpecHealth == InitHealth /\ [][NextHealth]_vars

(***************************************************************************)
(* The server with an API key over several days: the clock is counted in   *)
(* days, and the AI-analysis cycles run as the days pass.  The routes and  *)
(* the health-check timers are left out.                                   *)
(***************************************************************************)
InitDays == Init /\ hasApiKey

DayPasses ==
  /\ now < MaxDays
  /\ now' = now + 1
  /\ UNCHANGED <<storage, isRunning, checkInterval, analysisInterval, timers,
                 demoMode, listeners, hasApiKey, booted, tasks, running, response,
                 lastStart, lastCheck, stopReturned>>

NextDays ==
  \/ RegisterRoutes
  \/ \E t \in Slots : StartMonitoring(t)
  \/ \E t \in Slots : CheckContractHealth(t)
  \/ \E h \in 1..MaxTimers : AnalysisTimerFires(h)
  \/ \E t \in Slots : AnalyzeGetCode(t)
  \/ \E t \in Slots : AnalyzeGroq(t)
  \/ DayPasses

SpecDays == InitDays /\ [][NextDays]_vars

(***************************************************************************)
(* Claims.                                                                 *)
(***************************************************************************)
TimersOfKind(kind) == {x \in timers : x.kind = kind}

\* C1: after any sequence of start() and stop() calls, overlapping ones
\* included, at most one health-check interval timer and at most one
\* AI-analysis interval timer are scheduled.
C1_AtMostOneTimerOfEachKind ==
  /\ Cardinality(TimersOfKind("check")) <= 1
  /\ Cardinality(TimersOfKind("analysis")) <= 1

\* C2: once stop() has returned and start() is not invoked afterwards, the
\* monitor is not active and no interval timer is scheduled.
C2_StoppedForGood ==
  stopReturned => (~isActive /\ timers = {})

\* C3: a start() called while isRunning is true returns true and changes
\* nothing: no timer, no initialization, no write to the store, no call in
\* progress; POST /api/monitor/start, when isActive() is true, answers
\* 'Monitoring service is already running' and does not call start().
C3_StartWhileRunningChangesNothing ==
  [][/\ (isRunning /\ (MonitorServiceStart \/ PostMonitorStart))
          => UNCHANGED <<storage, isRunning, checkInterval, analysisInterval,
                         timers, demoMode, listeners, tasks, running, lastCheck>>
     /\ (isRunning /\ MonitorServiceStart)
          => lastStart' = [returned |-> TRUE, value |-> TRUE, activated |-> FALSE,
                           checked |-> <<>>]
     /\ (isRunning /\ PostMonitorStart)
          => /\ response' = <<200, "Monitoring service is already running">>
             /\ UNCHANGED <<lastStart, stopReturned>>]_vars

\* while the monitor runs start() has returned true at once and the route has
\* answered
C3_Witness ==
  /\ isRunning
  /\ lastStart.returned /\ lastStart.value /\ ~lastStart.activated
  /\ response = <<200, "Monitoring service is already running">>

\* the entries of a map are keyed by the ids of their records, the ids are
\* 1, 2, 3, ... in insertion order, and the counter is the next id
Sequential(m, currentId) ==
  /\ \A i \in DOMAIN m : m[i].key = m[i].val.id /\ m[i].val.id = i
  /\ currentId = Len(m) + 1

\* C4: for each entity kind every record is stored under its own id, the ids
\* are 1, 2, 3, ... in creation order without gap or reuse, and the next-id
\* counter is the number of records plus one.
C4_IdsAreSequential ==
  /\ Sequential(storage.users, storage.userCurrentId)
  /\ Sequential(storage.contracts, storage.contractCurrentId)
  /\ Sequential(storage.alerts, storage.alertCurrentId)
  /\ Sequential(storage.events, storage.eventCurrentId)
  /\ Sequential(storage.aiQueries, storage.aiQueryCurrentId)

C4_Witness ==
  /\ Len(storage.users) = 2
  /\ Len(storage.contracts) = 5
  /\ Len(storage.alerts) = 2
  /\ storage.alerts[1].val.resolved
  /\ Len(storage.events) = 2
  /\ Len(storage.aiQueries) = 2

\* C5: the status of every stored contract is HEALTHY, WARNING or ALERT.
C5_StatusIsKnown ==
  \A i \in DOMAIN storage.contracts :
    storage.contracts[i].val.status \in {"HEALTHY", "WARNING", "ALERT"}

\* a health check has found an unusual event pattern and written a status
C5_Witness ==
  \E i \in DOMAIN storage.contracts, j \in DOMAIN storage.alerts :
    /\ storage.contracts[i].val.status # "HEALTHY"
    /\ storage.alerts[j].val.title = "Unusual event pattern detected"
    /\ storage.alerts[j].val.contractId = storage.contracts[i].val.id

\* C6: the severity of every stored alert is LOW, MEDIUM, HIGH or CRITICAL,
\* and an alert is not resolved when it is created.
C6_AlertsAreWellFormed ==
  /\ [](\A i \in DOMAIN storage.alerts :
          storage.alerts[i].val.severity \in {"LOW", "MEDIUM", "HIGH", "CRITICAL"})
  /\ [][\A i \in DOMAIN storage'.alerts :
          i \notin DOMAIN storage.alerts => ~storage'.alerts[i].val.resolved]_vars

\* demo alerts and an alert of the monitor are stored
C6_Witness ==
  /\ Len(storage.alerts) >= 7
  /\ Len(monitorAlerts(storage)) >= 1

ContractIds(s) == {s.contracts[i].val.id : i \in DOMAIN s.contracts}

\* C7: the contractId of every stored alert, event and AI query is the id of a
\* stored contract.
C7_ContractIdsAreValid ==
  /\ \A i \in DOMAIN storage.alerts :
       storage.alerts[i].val.contractId \in ContractIds(storage)
  /\ \A i \in DOMAIN storage.events :
       storage.events[i].val.contractId \in ContractIds(storage)
  /\ \A i \in DOMAIN storage.aiQueries :
       storage.aiQueries[i].val.contractId \in ContractIds(storage)

C7_Witness ==
  /\ Len(monitorAlerts(storage)) >= 1
  /\ Len(storage.events) >= 6
  /\ Len(storage.aiQueries) >= 1

ContractIdsOf(contracts) == [i \in DOMAIN contracts |-> contracts[i].id]

\* the alert the catch block of checkContractHealth records
ErrorAlert(s, contract) ==
  [key |-> s.alertCurrentId,
   val |-> [id |-> s.alertCurrentId, contractId |-> contract.id,
            severity |-> "LOW", title |-> "Error monitoring contract",
            resolved |-> FALSE]]

\* C8: when getContractCode fails during the health check of a contract, a LOW
\* 'Error monitoring contract' alert is recorded for that contract and nothing
\* else is written, the cycle goes on with the remaining contracts or ends as
\* a cycle without failure ends (start() returns true), and no cycle skips a
\* contract.
C8_FailedCheckDoesNotAbortCycle ==
  /\ [][\A t \in Slots :
          (CheckContractHealth(t) /\ lastCheck'.code = "throw")
            => LET contract == Head(tasks[t].queue)
                   rest == Tail(tasks[t].queue)
                   checked == Append(tasks[t].checked, contract.id)
               IN /\ lastCheck'.contractId = contract.id
                  /\ storage' = [storage EXCEPT
                                   !.alerts = Append(@, ErrorAlert(storage, contract)),
                                   !.alertCurrentId = @ + 1]
                  /\ IF rest # <<>>
                     THEN /\ tasks'[t].kind = tasks[t].kind
                          /\ tasks'[t].pc = "check"
                          /\ tasks'[t].queue = rest
                          /\ tasks'[t].checked = checked
                     ELSE /\ tasks'[t] = IdleTask
                          /\ tasks[t].kind = "start"
                               => lastStart' = [returned |-> TRUE, value |-> TRUE,
                                                activated |-> TRUE,
                                                checked |-> checked]]_vars
  /\ [](\A t \in Slots :
          tasks[t].pc = "check"
            => tasks[t].checked \o ContractIdsOf(tasks[t].queue)
                 = ContractIdsOf(getContracts(storage)))

\* the check of the first contract failed and the cycle of start() went on to
\* the last one
C8_Witness ==
  /\ \E i \in DOMAIN storage.alerts :
       /\ storage.alerts[i].val.title = "Error monitoring contract"
       /\ storage.alerts[i].val.contractId = 1
  /\ Len(monitorAlerts(storage)) = 1
  /\ lastStart.returned /\ lastStart.activated /\ lastStart.value
  /\ lastStart.checked = <<1, 2, 3>>
  /\ lastCheck.contractId = 3

C10_FirstCheckRunsBeforeStartReturns ==
  (lastStart.returned /\ lastStart.activated /\ lastStart.value)
    => lastStart.checked = [i \in DOMAIN storage.contracts |->
                              storage.contracts[i].val.id]

C10_Witness ==
  /\ lastStart.returned /\ lastStart.activated /\ lastStart.value
  /\ Len(lastStart.checked) = 3

\* the indexes of the indicators whose pattern matches an analysis
Matching(analysis) ==
  {i \in DOMAIN vulnerabilityIndicators :
     test(vulnerabilityIndicators[i].pattern, analysis)}

First(indexes) == CHOOSE i \in indexes : \A j \in indexes : i <= j

SeverityRank(severity) ==
  CASE severity = "LOW" -> 1
    [] severity = "MEDIUM" -> 2
    [] severity = "HIGH" -> 3
    [] severity = "CRITICAL" -> 4

\* C11: analyzeContractWithAI creates at most one alert per analysis; its
\* severity and title are those of the first indicator, in the order
\* reentrancy (HIGH), access control (HIGH), overflow|underflow (MEDIUM),
\* front-running (MEDIUM), logic error (MEDIUM), gas optimization (LOW), that
\* matches the text, which is the highest severity among the matching ones; a
\* HIGH alert sets the contract's status to ALERT, a LOW alert changes no
\* status, and without a match the store is left as it was.
C11_OneAlertOfTheFirstMatchingIndicator ==
  /\ [](/\ [i \in DOMAIN vulnerabilityIndicators |->
               vulnerabilityIndicators[i].severity]
             = <<"HIGH", "HIGH", "MEDIUM", "MEDIUM", "MEDIUM", "LOW">>
        /\ Matching({"reentrancy"}) = {1} /\ Matching({"access control"}) = {2}
        /\ Matching({"overflow"}) = {3} /\ Matching({"underflow"}) = {3}
        /\ Matching({"front-running"}) = {4} /\ Matching({"logic error"}) = {5}
        /\ Matching({"gas optimization"}) = {6})
  /\ [][\A contract \in Snapshots(storage), analysis \in Analyses :
          AnalyzeContractWithAI(contract, analysis)
            => IF Matching(analysis) = {}
               THEN storage' = storage
               ELSE LET ind == vulnerabilityIndicators[First(Matching(analysis))]
                        alert == storage'.alerts[Len(storage'.alerts)].val
                    IN /\ Len(storage'.alerts) = Len(storage.alerts) + 1
                       /\ SubSeq(storage'.alerts, 1, Len(storage.alerts))
                            = storage.alerts
                       /\ alert.contractId = contract.id
                       /\ alert.severity = ind.severity
                       /\ alert.title = ind.title
                       /\ \A i \in Matching(analysis) :
                            SeverityRank(alert.severity)
                              >= SeverityRank(vulnerabilityIndicators[i].severity)
                       /\ alert.severity = "HIGH"
                            => MapGet(storage'.contracts, contract.id).status = "ALERT"
                       /\ alert.severity = "LOW"
                            => storage'.contracts = storage.contracts]_vars

\* an analysis has produced one alert, the reentrancy one, for contract 1,
\* which was HEALTHY and is now ALERT
C11_Witness ==
  /\ Len(storage.alerts) = 1
  /\ storage.alerts[1].val.title = "Reentrancy vulnerability"
  /\ storage.alerts[1].val.severity = "HIGH"
  /\ storage.alerts[1].val.contractId = 1
  /\ MapGet(storage.contracts, 1).status = "ALERT"

\* the analysis timers whose callback may run now
AnalysisTimersDue ==
  {h \in 1..MaxTimers : Idle /\ FreeSlots # {} /\ [id |-> h, kind |-> "analysis"] \in timers}

\* C12: a periodic AI-analysis cycle that starts with a recorded total at or
\* above DAILY_TOKEN_LIMIT analyzes no contract (and so records no query,
\* creates no alert and changes no status); one that starts with a total
\* strictly below the limit analyzes every contract in the store.
C12_CycleSkippedAtLimitOnly ==
  AnalysisTimersDue # {}
    => IF getTotalQueryTokenCount(storage) >= DAILY_TOKEN_LIMIT
       THEN runAIAnalysis(isRunning, storage) = <<>>
       ELSE runAIAnalysis(isRunning, storage) = getContracts(storage)

\* a cycle that a timer callback starts holds the contracts it will analyze
\* and has written nothing
CycleStarted ==
  \/ /\ runAIAnalysis(isRunning, storage) = <<>>
     /\ UNCHANGED <<storage, tasks, running>>
  \/ /\ tasks'[FreeSlot].kind = "analysis"
     /\ tasks'[FreeSlot].pc = "code"
     /\ tasks'[FreeSlot].queue = runAIAnalysis(isRunning, storage)
     /\ storage' = storage

\* a cycle under way goes from one contract to the next, each one once its code
\* has been handed to groqService.analyzeContract, and ends after the last one
CycleGoesOn ==
  \A t \in Slots :
     (tasks[t].kind = "analysis" /\ tasks'[t] # tasks[t])
       => \/ /\ tasks[t].pc = "code" /\ tasks'[t].pc = "groq"
             /\ tasks'[t].queue = tasks[t].queue
          \/ /\ tasks[t].pc = "groq" /\ tasks'[t].pc = "code"
             /\ tasks'[t].queue = Tail(tasks[t].queue)
             /\ tasks'[t].queue # <<>>
          \/ /\ tasks[t].pc = "groq" /\ tasks'[t] = IdleTask
             /\ Len(tasks[t].queue) = 1

\* what does hold of a cycle: while the monitor is running it is skipped when
\* the total is at or above the limit and runs over every contract otherwise;
\* while the monitor is not running it is skipped
CycleWhileRunning ==
  /\ [](AnalysisTimersDue # {}
          => IF getTotalQueryTokenCount(storage) >= DAILY_TOKEN_LIMIT \/ ~isRunning
             THEN runAIAnalysis(isRunning, storage) = <<>>
             ELSE runAIAnalysis(isRunning, storage) = getContracts(storage))
  /\ [][/\ \A h \in 1..MaxTimers : AnalysisTimerFires(h) => CycleStarted
        /\ CycleGoesOn]_vars

\* the tokens of the AI queries recorded on a day
RECURSIVE TokensOfDay(_, _)
TokensOfDay(queries, day) ==
  IF queries = <<>> THEN 0
  ELSE (IF Head(queries).createdAt = day THEN Head(queries).tokenCount ELSE 0)
         + TokensOfDay(Tail(queries), day)

\* C13: the usage that isWithinUsageLimit() compares with DAILY_TOKEN_LIMIT is
\* the number of tokens consumed during the current day, so that on a day on
\* which fewer tokens than the limit have been consumed a periodic AI-analysis
\* cycle runs, whatever was consumed on the days before.
C13_UsageIsCountedPerDay ==
  /\ getTotalQueryTokenCount(storage) = TokensOfDay(MapValues(storage.aiQueries), now)
  /\ (/\ AnalysisTimersDue # {}
      /\ isRunning
      /\ TokensOfDay(MapValues(storage.aiQueries), now) < DAILY_TOKEN_LIMIT)
       => runAIAnalysis(isRunning, storage) = getContracts(storage)

\* a string that writes a number in decimal digits
Numeric(str) == str # <<>> /\ \A i \in DOMAIN str : str[i] \in DOMAIN DigitValue

\* what resolving the stored alert with an id must do to the store and answer
Resolves(id) ==
  LET i == CHOOSE k \in DOMAIN storage.alerts : storage.alerts[k].key = id
      alert == storage.alerts[i].val
      resolved == [id |-> alert.id, contractId |-> alert.contractId,
                   severity |-> alert.severity, title |-> alert.title,
                   resolved |-> TRUE]
  IN /\ response' = <<200, "alert", resolved>>
     /\ storage' = [storage EXCEPT !.alerts[i].val = resolved]
     /\ alert.resolved => storage' = storage

\* C14: POST /api/alerts/:id/resolve answers 400 for a non-numeric id and 404
\* for an id of no stored alert, and leaves the store unchanged in both cases;
\* for a stored alert it sets resolved to true, changes no other field of that
\* alert and no other record, and answers with the resolved alert; resolving
\* an alert that is resolved leaves the store unchanged.
C14_ResolveRoute ==
  [][\A param \in ResolveParams :
       PostResolveAlert(param)
         => IF ~Numeric(param)
            THEN response' = <<400, "Invalid alert ID">> /\ storage' = storage
            ELSE IF ~MapHas(storage.alerts, ParseDigits(param, 0))
            THEN response' = <<404, "Alert not found">> /\ storage' = storage
            ELSE Resolves(ParseDigits(param, 0))]_vars

\* what does hold of the route: the same with "an id parseInt makes no number
\* of" in the place of "a non-numeric id", the id being the number parseInt
\* reads at the start of the parameter
ResolveRouteAsParsed ==
  [][\A param \in ResolveParams :
       PostResolveAlert(param)
         => IF param = <<>> \/ Head(param) \notin DOMAIN DigitValue
            THEN response' = <<400, "Invalid alert ID">> /\ storage' = storage
            ELSE IF ~MapHas(storage.alerts, ParseDigits(param, 0))
            THEN response' = <<404, "Alert not found">> /\ storage' = storage
            ELSE Resolves(ParseDigits(param, 0))]_vars

\* the elements of a sequence
Range(seq) == {seq[i] : i \in DOMAIN seq}

\* C15: an alert that has been resolved is stored and resolved in every later
\* state, whatever the monitor and the routes do; getActiveAlerts() returns
\* exactly the stored alerts whose resolved flag is false, each once, so a
\* resolved alert is never among the active alerts again.
C15_ResolvedStaysResolved ==
  /\ [][\A i \in DOMAIN storage.alerts :
          storage.alerts[i].val.resolved
            => /\ i \in DOMAIN storage'.alerts
               /\ storage'.alerts[i].key = storage.alerts[i].key
               /\ storage'.alerts[i].val = storage.alerts[i].val
               /\ storage'.alerts[i].val \notin Range(getActiveAlerts(storage'))]_vars
  /\ [](/\ Range(getActiveAlerts(storage))
             = {alert \in Range(getAlerts(storage)) : ~alert.resolved}
        /\ Len(getActiveAlerts(storage))
             = Cardinality({i \in DOMAIN storage.alerts :
                              ~storage.alerts[i].val.resolved}))

\* alert 1 was resolved, the monitor was stopped after that and has recorded an
\* alert of its own: alert 1 is resolved still and the others are active
C15_Witness ==
  /\ MapHas(storage.alerts, 1)
  /\ MapGet(storage.alerts, 1).resolved
  /\ response = <<200, "Monitoring service stopped">>
  /\ monitorAlerts(storage) # <<>>
  /\ Len(getActiveAlerts(storage)) = Len(storage.alerts) - 1

\* the stored events of a contract
EventsOf(s, contractId) ==
  {event \in Range(MapValues(s.events)) : event.contractId = contractId}

\* the code of a contract is available
Available(code) == code \notin {"throw", "", "0x"}

\* C16: checkContractHealth on a contract whose code is available and that
\* has no stored event sets the status of that contract to HEALTHY and writes
\* nothing else (no alert), whatever the status was and whatever alerts are
\* stored for the contract.
C16_NoEventsMeansHealthy ==
  [][\A i \in DOMAIN getContracts(storage), code \in getContractCode(demoMode) :
       LET contract == getContracts(storage)[i]
       IN (/\ HealthCheck(contract, code)
           /\ Available(code)
           /\ EventsOf(storage, contract.id) = {})
            => /\ MapGet(storage'.contracts, contract.id).status = "HEALTHY"
               /\ storage' = [storage EXCEPT
                                !.contracts[i].val.status = "HEALTHY"]]_vars

\* the Guardian Badge contract, which starts as ALERT, has no event and an
\* unresolved alert, and its check has set it to HEALTHY
C16_Witness ==
  /\ lastCheck.contractId = 3
  /\ Available(lastCheck.code)
  /\ EventsOf(storage, 3) = {}
  /\ MapGet(storage.contracts, 3).status = "HEALTHY"
  /\ \E alert \in Range(getActiveAlerts(storage)) : alert.contractId = 3

Suspicious(events) ==
  {event \in events : event.eventName \in {"BadgeClaim", "AlertSubmitted"}}

Min(a, b) == IF a <= b THEN a ELSE b

Max(a, b) == IF a >= b THEN a ELSE b

\* The `limit` most recent of a set of events are all of them when there are
\* no more than `limit`.  Otherwise they are the events later than some time
\* t and, to make up the number, events of time t: any of these will do, so
\* the number of suspicious events among the most recent lies between a
\* least and a greatest value, which are equal when no two events that
\* matter have the same time.
SuspiciousAmongRecent(events, limit) ==
  IF Cardinality(events) <= limit
  THEN [least |-> Cardinality(Suspicious(events)),
        greatest |-> Cardinality(Suspicious(events))]
  ELSE LET later(t) == {event \in events : event.timestamp > t}
           at(t) == {event \in events : event.timestamp = t}
           t == CHOOSE x \in {event.timestamp : event \in events} :
                  /\ Cardinality(later(x)) < limit
                  /\ Cardinality(later(x)) + Cardinality(at(x)) >= limit
           missing == limit - Cardinality(later(t))
           suspicious == Cardinality(Suspicious(at(t)))
           others == Cardinality(at(t)) - suspicious
       IN [least |-> Cardinality(Suspicious(later(t))) + Max(0, missing - others),
           greatest |-> Cardinality(Suspicious(later(t))) + Min(missing, suspicious)]

\* the alert of the health check, stored under the next id
UnusualPatternAlert(s, contract) ==
  [key |-> s.alertCurrentId,
   val |-> [id |-> s.alertCurrentId, contractId |-> contract.id,
            severity |-> "MEDIUM", title |-> "Unusual event pattern detected",
            resolved |-> FALSE]]

\* C17: checkContractHealth on a contract whose code is available and that
\* has at least one stored event creates exactly one MEDIUM 'Unusual event
\* pattern detected' alert and sets the status to WARNING if and only if at
\* least 3 of the contract's 10 most recent events are named BadgeClaim or
\* AlertSubmitted; otherwise it leaves the whole store unchanged.
C17_AlertIffThreeOfTenMostRecent ==
  [][\A i \in DOMAIN getContracts(storage), code \in getContractCode(demoMode) :
       LET contract == getContracts(storage)[i]
           count == SuspiciousAmongRecent(EventsOf(storage, contract.id), 10)
       IN (/\ HealthCheck(contract, code)
           /\ Available(code)
           /\ EventsOf(storage, contract.id) # {})
            => \/ /\ count.greatest >= 3
                  /\ storage' = [storage EXCEPT
                                   !.alerts = Append(@, UnusualPatternAlert(storage,
                                                                            contract)),
                                   !.alertCurrentId = @ + 1,
                                   !.contracts[i].val.status = "WARNING"]
               \/ /\ count.least < 3
                  /\ storage' = storage]_vars

\* the Guardian Feed contract has eleven events, three of them suspicious and
\* the oldest one among these, so that two of the ten most recent are: its
\* check has left the store as it was
C17_Witness ==
  /\ lastCheck.contractId = 1
  /\ Available(lastCheck.code)
  /\ Cardinality(EventsOf(storage, 1)) = MaxHistory
  /\ Cardinality(Suspicious(EventsOf(storage, 1))) = 3
  /\ SuspiciousAmongRecent(EventsOf(storage, 1), 10).greatest = 2
  /\ monitorAlerts(storage) = <<>>

\* server startup has finished: registerRoutes has run, the start() it called
\* has returned, and no client has had an answer or a start() of its own yet
StartupFinished ==
  /\ booted
  /\ lastStart.returned
  /\ \A t \in Slots : tasks[t].kind # "start"
  /\ response = <<0, "">>
  /\ ~stopReturned

\* the alerts createDemoAlerts stored
demoAlerts(s) ==
  SelectSeq(MapValues(s.alerts), LAMBDA alert : alert.title \in DemoTitles)

\* C18: demo data is seeded once: when server startup has finished each of
\* the three Guardian contracts has exactly one stored event and the store
\* holds exactly three demo alerts.
C18_DemoDataSeededOnce ==
  StartupFinished
    => /\ \A i \in DOMAIN getContracts(storage) :
            Cardinality(EventsOf(storage, getContracts(storage)[i].id)) = 1
       /\ Len(demoAlerts(storage)) = 3

\* the three Guardian contracts in the order of their ids
GuardianContracts ==
  << [id |-> 1, name |-> "Guardian Feed", type |-> "FEED"],
     [id |-> 2, name |-> "Guardian DAO", type |-> "DAO"],
     [id |-> 3, name |-> "Guardian Badge", type |-> "BADGE"] >>

\* the contract a demo alert is meant for
DemoAlertContract ==
  [title \in DemoTitles |->
     CASE title = "Suspicious Transfer Pattern Detected" -> 1
       [] title = "Governance Parameter Change" -> 2
       [] title = "Unusual Minting Activity" -> 3]

\* C19: in every reachable state the contracts with ids 1, 2 and 3 exist and
\* are the Guardian Feed (FEED), the Guardian DAO (DAO) and the Guardian Badge
\* (BADGE) contract, getContracts() lists them in that order, and so the demo
\* alerts, which createDemoAlerts gives to contracts[0], contracts[1] and
\* contracts[2], are stored for the Feed, the DAO and the Badge contract.
C19_GuardianContractsInOrder ==
  /\ Len(getContracts(storage)) >= 3
  /\ \A i \in 1..3 :
       /\ MapHas(storage.contracts, i)
       /\ MapGet(storage.contracts, i) = getContracts(storage)[i]
       /\ getContracts(storage)[i].id = GuardianContracts[i].id
       /\ getContracts(storage)[i].name = GuardianContracts[i].name
       /\ getContracts(storage)[i].type = GuardianContracts[i].type
  /\ \A alert \in Range(demoAlerts(storage)) :
       alert.contractId = DemoAlertContract[alert.title]

\* the statuses of the Feed and the Badge contract have been written, demo
\* data has been seeded three times, and the contracts are listed in the
\* order of their ids
C19_Witness ==
  /\ MapGet(storage.contracts, 1).status # "HEALTHY"
  /\ MapGet(storage.contracts, 3).status # "ALERT"
  /\ Len(demoAlerts(storage)) = 9
  /\ [i \in 1..3 |-> getContracts(storage)[i].id] = <<1, 2, 3>>
====
